---- MODULE Spec2Model ----
(***************************************************************************)
(* Model of the dbsfw backing-store data layer (namespace                  *)
(* zuki::dbsfw::data): Database::Open / Import / Export / Vacuum, the      *)
(* schema migration in InitializeInstance, the import_* and export_card    *)
(* statements and the base64 extension functions.                          *)
(*                                                                         *)
(* SQL values are modelled as strings, with Null for SQL NULL; blobs and   *)
(* base-64 texts are sequences of numbers, with NULLB / NULLT for NULL.    *)
(* A table is the set of its rows.                                         *)
(***************************************************************************)
EXTENDS Integers, Sequences, FiniteSets, TLC

\* ------------------------------------------------------------------ bounds
\* Longest image blob drawn for a store.
MaxBlobLen == 3
\* Most rows of one child table drawn for a store.
MaxChildRows == 1
\* Most Database objects ever constructed in one behaviour.
MaxHandles == 2
\* pages of a database file that hold no data after an import
MaxUnusedPages == 1

\* ------------------------------------------------------------------ values
Null == "<null>"
NULLB == << -1 >>
NULLT == << -2 >>

\* JSON null and JSON array members of a card document
JNull == [null |-> TRUE, items |-> << >>]
JArr(s) == [null |-> FALSE, items |-> s]

\* binary collation of the text values that occur (NULL sorts first)
Collation == << Null, "", "A", "B", "BACK", "BATTLE", "Blue", "EN", "EXTRA", "FRONT",
                "JP", "L", "LEADER", "Red", "SR", "WRONG", "XX", "a", "f1", "f2",
                "n", "q", "webp" >>
Rank(s) == CHOOSE i \in 1..Len(Collation) : Collation[i] = s

\* The elements of S as a sequence in ascending order of key[x] (a number)
RECURSIVE SortedSeq(_, _)
SortedSeq(S, key) ==
    IF S = {} THEN << >>
    ELSE LET m == CHOOSE x \in S : \A y \in S : key[x] <= key[y]
         IN  << m >> \o SortedSeq(S \ {m}, key)

RECURSIVE SubsetsUpTo(_, _)
SubsetsUpTo(U, k) ==
    IF k = 0 THEN {{}}
    ELSE LET P == SubsetsUpTo(U, k - 1)
         IN  P \cup {s \cup {r} : s \in P, r \in U}

RECURSIVE SeqsUpTo(_, _)
SeqsUpTo(U, k) ==
    IF k = 0 THEN {<< >>}
    ELSE LET P == SeqsUpTo(U, k - 1)
         IN  P \cup {Append(s, r) : s \in P, r \in U}

Range(s) == {s[i] : i \in 1..Len(s)}

\* ------------------------------------------------------------------ base64 (dbextension.cpp)
\* CryptBinaryToStringW(CRYPT_STRING_BASE64 | CRYPT_STRING_NOCRLF): the
\* characters are the sextet values 0..63 and 64 for the padding '='.
RECURSIVE BinaryToString(_)
BinaryToString(b) ==
    IF Len(b) = 0 THEN << >>
    ELSE IF Len(b) = 1 THEN << b[1] \div 4, (b[1] % 4) * 16, 64, 64 >>
    ELSE IF Len(b) = 2
         THEN << b[1] \div 4, (b[1] % 4) * 16 + (b[2] \div 16), (b[2] % 16) * 4, 64 >>
    ELSE << b[1] \div 4, (b[1] % 4) * 16 + (b[2] \div 16),
            (b[2] % 16) * 4 + (b[3] \div 64), b[3] % 64 >>
         \o BinaryToString(SubSeq(b, 4, Len(b)))

\* base64encode: a value of zero bytes (NULL or an empty blob) gives NULL
base64encode(b) ==
    IF b = NULLB \/ Len(b) = 0 THEN NULLT ELSE BinaryToString(b)

\* is t a well-formed padded base-64 text
StringIsBase64(t) ==
    /\ Len(t) > 0
    /\ Len(t) % 4 = 0
    /\ \A i \in 1..Len(t) : t[i] \in 0..64
    /\ \A i \in 1..Len(t) : t[i] = 64 => i >= Len(t) - 1
    /\ t[Len(t) - 1] = 64 => t[Len(t)] = 64

RECURSIVE StringToBinary(_)
StringToBinary(t) ==
    IF Len(t) = 0 THEN << >>
    ELSE LET b1 == t[1] * 4 + (t[2] \div 16)
             b2 == (t[2] % 16) * 16 + (t[3] \div 4)
             b3 == (t[3] % 4) * 64 + t[4]
             rest == StringToBinary(SubSeq(t, 5, Len(t)))
         IN  IF t[3] = 64 THEN << b1 >>
             ELSE IF t[4] = 64 THEN << b1, b2 >>
             ELSE << b1, b2, b3 >> \o rest

\* base64decode: NULL gives NULL; a text that decodes to nothing or does not
\* decode is an error of the statement
base64decode(t) ==
    IF t = NULLT THEN [ok |-> TRUE, val |-> NULLB]
    ELSE IF ~StringIsBase64(t) THEN [ok |-> FALSE, val |-> NULLB]
    ELSE [ok |-> TRUE, val |-> StringToBinary(t)]

\* ------------------------------------------------------------------ schema (Database.cpp, version-1 DDL)
TableNames == << "card", "carddetail", "cardfaq", "cardfaqrelated", "cardimage" >>

NoRows == [card |-> {}, carddetail |-> {}, cardfaq |-> {}, cardfaqrelated |-> {},
           cardimage |-> {}]

\* x in (list) in SQL's three-valued logic: "T", "F" or "U" (unknown)
In3(x, list) ==
    IF x = Null THEN "U"
    ELSE IF x \in (list \ {Null}) THEN "T"
    ELSE IF Null \in list THEN "U"
    ELSE "F"

\* a check constraint rejects a row only when its expression is false
CheckPasses(t) == t # "F"

\* two primary-key values collide: equal and without a NULL component
KeyClash(k1, k2) == k1 = k2 /\ \A i \in DOMAIN k1 : k1[i] # Null

card_key(r) == << r.cardid >>
side_key(r) == << r.cardid, r.side, r.language >>
faq_key(r) == << r.cardid, r.faqid, r.language >>
related_key(r) == << r.cardid, r.faqid, r.language, r.relatedcardid >>

\* the primary key of a row of table t
KeyOf(t, r) ==
    CASE t = "card" -> card_key(r)
      [] t = "cardfaq" -> faq_key(r)
      [] t = "cardfaqrelated" -> related_key(r)
      [] OTHER -> side_key(r)

\* the rows new[i] can all be added to table t holding the keys old
KeysFree(old, new, t) ==
    /\ \A i \in DOMAIN new : \A k \in old : ~KeyClash(KeyOf(t, new[i]), k)
    /\ \A i, j \in DOMAIN new : i # j => ~KeyClash(KeyOf(t, new[i]), KeyOf(t, new[j]))

\* create table card(...)
card_constraints(rows, r) ==
    /\ r.cardid # Null /\ r.type # Null /\ r.color # Null /\ r.rarity # Null
    /\ CheckPasses(In3(r.type, {"LEADER", "BATTLE", "EXTRA"}))
    /\ CheckPasses(In3(r.color, {"Red", "Blue", "Green", "Yellow", "Black"}))
    /\ CheckPasses(In3(r.rarity, {"L", "C", "R", "SR", "SCR", "PR"}))

\* foreign key(cardid) references card(cardid)
card_exists(rows, r) == \E c \in rows.card : c.cardid = r.cardid

\* create table carddetail(...)
carddetail_constraints(rows, r) ==
    /\ r.cardid # Null /\ r.language # Null /\ r.name # Null
    /\ card_exists(rows, r)
    /\ CheckPasses(In3(r.side, {Null, "FRONT", "BACK"}))
    /\ CheckPasses(In3(r.language, {"EN", "JP"}))

\* create table cardfaq(...)
cardfaq_constraints(rows, r) ==
    /\ r.cardid # Null /\ r.faqid # Null /\ r.language # Null /\ r.question # Null
    /\ card_exists(rows, r)
    /\ CheckPasses(In3(r.language, {"EN", "JP"}))

\* create table cardfaqrelated(...): faqid is nullable, and a foreign key
\* with a NULL component is not checked
cardfaqrelated_constraints(rows, r) ==
    /\ r.cardid # Null /\ r.language # Null /\ r.relatedcardid # Null
    /\ \/ r.faqid = Null
       \/ \E f \in rows.cardfaq : faq_key(f) = faq_key(r)
    /\ CheckPasses(In3(r.language, {"EN", "JP"}))

\* create table cardimage(...)
cardimage_constraints(rows, r) ==
    /\ r.cardid # Null /\ r.language # Null /\ r.format # Null /\ r.image # NULLB
    /\ card_exists(rows, r)
    /\ CheckPasses(In3(r.side, {Null, "FRONT", "BACK"}))
    /\ CheckPasses(In3(r.language, {"EN", "JP"}))

\* the constraints of table t on a new row r
TableConstraints(t, rows, r) ==
    CASE t = "card" -> card_constraints(rows, r)
      [] t = "carddetail" -> carddetail_constraints(rows, r)
      [] t = "cardfaq" -> cardfaq_constraints(rows, r)
      [] t = "cardfaqrelated" -> cardfaqrelated_constraints(rows, r)
      [] OTHER -> cardimage_constraints(rows, r)

\* one insert statement: all of new[i] are added to table t, or none is and
\* the statement fails (conflict resolution ABORT)
InsertRows(rows, t, new) ==
    IF /\ \A i \in DOMAIN new : TableConstraints(t, rows, new[i])
       /\ KeysFree({KeyOf(t, r) : r \in rows[t]}, new, t)
    THEN [ok |-> TRUE, rows |-> [rows EXCEPT ![t] = @ \cup {new[i] : i \in DOMAIN new}]]
    ELSE [ok |-> FALSE, rows |-> rows]

StatementFailed(rows) == [ok |-> FALSE, rows |-> rows]

\* ------------------------------------------------------------------ import statements (Import.cpp)
\* The text f of one file is [json |-> is it JSON, doc |-> the document].

import_card_sql(rows, f) ==
    IF ~f.json THEN StatementFailed(rows)
    ELSE InsertRows(rows, "card",
            << [cardid |-> f.doc.cardid, type |-> f.doc.type, color |-> f.doc.color,
                rarity |-> f.doc.rarity] >>)

import_carddetail_sql(rows, f) ==
    IF ~f.json THEN StatementFailed(rows)
    ELSE IF f.doc.detail.null THEN [ok |-> TRUE, rows |-> rows]
    ELSE LET d == f.doc.detail.items
         IN  InsertRows(rows, "carddetail",
                [i \in 1..Len(d) |->
                    [cardid |-> f.doc.cardid, side |-> d[i].side, language |-> d[i].language,
                     name |-> d[i].name, cost |-> d[i].cost,
                     specifiedcost |-> d[i].specifiedcost, power |-> d[i].power,
                     combopower |-> d[i].combopower, traits |-> d[i].traits,
                     effect |-> d[i].effect]])

import_cardfaq_sql(rows, f) ==
    IF ~f.json THEN StatementFailed(rows)
    ELSE IF f.doc.faq.null THEN [ok |-> TRUE, rows |-> rows]
    ELSE LET q == f.doc.faq.items
         IN  InsertRows(rows, "cardfaq",
                [i \in 1..Len(q) |->
                    [cardid |-> f.doc.cardid, faqid |-> q[i].faqid,
                     language |-> q[i].language, question |-> q[i].question,
                     answer |-> q[i].answer]])

import_cardfaqrelated_sql(rows, f) ==
    IF ~f.json THEN StatementFailed(rows)
    ELSE LET q == f.doc.faq.items
             idx == UNION {{<< i, j >> : j \in 1..Len(q[i].related.items)} :
                            i \in {i \in 1..Len(q) : ~q[i].related.null}}
         IN  InsertRows(rows, "cardfaqrelated",
                [p \in idx |->
                    [cardid |-> f.doc.cardid, faqid |-> q[p[1]].faqid,
                     language |-> q[p[1]].language,
                     relatedcardid |-> q[p[1]].related.items[p[2]]]])

import_cardimage_sql(rows, f) ==
    IF ~f.json THEN StatementFailed(rows)
    ELSE IF f.doc.image.null THEN [ok |-> TRUE, rows |-> rows]
    ELSE LET m == f.doc.image.items
         IN  IF \E i \in 1..Len(m) : ~base64decode(m[i].image).ok
             THEN StatementFailed(rows)
             ELSE InsertRows(rows, "cardimage",
                    [i \in 1..Len(m) |->
                        [cardid |-> f.doc.cardid, side |-> m[i].side,
                         language |-> m[i].language, format |-> m[i].format,
                         image |-> base64decode(m[i].image).val]])

\* variant of InsertStatements: import_carddetail is called before import_card
InsertStatements_detail_first ==
    << "insert into carddetail", "insert into card", "insert into cardfaq",
       "insert into cardfaqrelated", "insert into cardimage" >>

\* variant of InsertStatements: import_cardfaqrelated is called before
\* import_cardfaq
InsertStatements_related_first ==
    << "insert into card", "insert into carddetail", "insert into cardfaqrelated",
       "insert into cardfaq", "insert into cardimage" >>

\* the statements of import_card, import_carddetail, import_cardfaq,
\* import_cardfaqrelated and import_cardimage, in the order in which
\* Database::Import calls the functions
InsertStatements == << "insert into card", "insert into carddetail", "insert into cardfaq",
                       "insert into cardfaqrelated", "insert into cardimage" >>

\* the statement of insert pass p (1..5) applied to one file
import_sql(p, rows, f) ==
    CASE InsertStatements[p] = "insert into card" -> import_card_sql(rows, f)
      [] InsertStatements[p] = "insert into carddetail" -> import_carddetail_sql(rows, f)
      [] InsertStatements[p] = "insert into cardfaq" -> import_cardfaq_sql(rows, f)
      [] InsertStatements[p] = "insert into cardfaqrelated" ->
            import_cardfaqrelated_sql(rows, f)
      [] OTHER -> import_cardimage_sql(rows, f)

\* Directory::GetFiles: the names of the files of a directory
GetFiles(files) == SortedSeq(DOMAIN files, [n \in DOMAIN files |-> Rank(n)])

\* ------------------------------------------------------------------ export statement (Export.cpp)
\* variant of language_side_order: order by language asc, side asc
language_side_ascending(r) == Rank(r.language) * (Len(Collation) + 1) + Rank(r.side)

\* order by language asc, side desc
language_side_order(r) == Rank(r.language) * (Len(Collation) + 1) + (Len(Collation) - Rank(r.side))
\* order by language asc, faqid asc
language_faqid_order(r) == Rank(r.language) * (Len(Collation) + 1) + Rank(r.faqid)

\* variant of JsonArrayOrNull: no rows give an empty array
JsonArrayAlways(items) == JArr(items)

JsonArrayOrNull(items) == IF Len(items) = 0 THEN JNull ELSE JArr(items)

detail_json(r) ==
    [side |-> r.side, language |-> r.language, name |-> r.name, cost |-> r.cost,
     specifiedcost |-> r.specifiedcost, power |-> r.power, combopower |-> r.combopower,
     traits |-> r.traits, effect |-> r.effect]

\* cardfaq left outer join cardfaqrelated, grouped by the FAQ
faq_json(rows, r) ==
    LET rel == {x \in rows.cardfaqrelated :
                    /\ x.faqid # Null /\ r.faqid # Null
                    /\ x.cardid = r.cardid /\ x.faqid = r.faqid /\ x.language = r.language}
        ids == {x.relatedcardid : x \in rel}
    IN  [faqid |-> r.faqid, language |-> r.language, question |-> r.question,
         answer |-> r.answer,
         related |-> JsonArrayOrNull(SortedSeq(ids, [i \in ids |-> Rank(i)]))]

image_json(r) ==
    [side |-> r.side, language |-> r.language, format |-> r.format,
     image |-> base64encode(r.image)]

\* the document the export query returns for the card row c
export_card_sql(rows, c) ==
    LET details == {r \in rows.carddetail : r.cardid = c.cardid}
        faqs == {r \in rows.cardfaq : r.cardid = c.cardid}
        images == {r \in rows.cardimage : r.cardid = c.cardid}
        d == SortedSeq(details, [r \in details |-> language_side_order(r)])
        q == SortedSeq(faqs, [r \in faqs |-> language_faqid_order(r)])
        m == SortedSeq(images, [r \in images |-> language_side_order(r)])
    IN  [cardid |-> c.cardid, type |-> c.type, color |-> c.color, rarity |-> c.rarity,
         detail |-> JsonArrayOrNull([i \in 1..Len(d) |-> detail_json(d[i])]),
         faq |-> JsonArrayOrNull([i \in 1..Len(q) |-> faq_json(rows, q[i])]),
         image |-> JsonArrayOrNull([i \in 1..Len(m) |-> image_json(m[i])])]

\* the file name that Path::Combine(path, cardid + ".json") designates: the
\* file system does not distinguish the case of the letters of a name
ToUpper(s) == IF s = "a" THEN "A" ELSE s
JsonFile(cardid) == ToUpper(cardid)

\* File::WriteAllText for the rows in todo, in the order of the query, over
\* the files already there: a row whose cardid is NULL writes no file, and a
\* file of the same name is replaced
RECURSIVE WriteCardFiles(_, _, _)
WriteCardFiles(files, rows, todo) ==
    IF Len(todo) = 0 THEN files
    ELSE LET c == Head(todo)
             written == [n \in DOMAIN files \cup {JsonFile(c.cardid)} |->
                            IF n = JsonFile(c.cardid)
                            THEN [json |-> TRUE, doc |-> export_card_sql(rows, c)]
                            ELSE files[n]]
         IN  WriteCardFiles(IF c.cardid = Null THEN files ELSE written, rows, Tail(todo))

\* the card rows in the order the query returns them
CardOrder(rows) == SortedSeq(rows.card, [c \in rows.card |-> Rank(c.cardid)])

\* export_card on a directory holding files
export_card(files, rows) == WriteCardFiles(files, rows, CardOrder(rows))

\* the five insert passes of Import over the files of a directory, each
\* pass over all files: [ok, rows]
RECURSIVE import_pass(_, _, _, _)
import_pass(p, rows, files, names) ==
    IF Len(names) = 0 THEN [ok |-> TRUE, rows |-> rows]
    ELSE LET r == import_sql(p, rows, files[Head(names)])
         IN  IF r.ok THEN import_pass(p, r.rows, files, Tail(names)) ELSE r

RECURSIVE import_passes(_, _, _)
import_passes(p, rows, files) ==
    IF p > Len(TableNames) THEN [ok |-> TRUE, rows |-> rows]
    ELSE LET r == import_pass(p, rows, files, GetFiles(files))
         IN  IF r.ok THEN import_passes(p + 1, r.rows, files) ELSE r

\* ------------------------------------------------------------------ sample inputs
EmptyDoc == [cardid |-> Null, type |-> Null, color |-> Null, rarity |-> Null,
             detail |-> JNull, faq |-> JNull, image |-> JNull]
\* a file whose text is not JSON
Malformed == [json |-> FALSE, doc |-> EmptyDoc]
Json(d) == [json |-> TRUE, doc |-> d]

DetailOf(side, language) ==
    [side |-> side, language |-> language, name |-> "n", cost |-> Null,
     specifiedcost |-> Null, power |-> Null, combopower |-> Null, traits |-> Null,
     effect |-> Null]
FaqOf(faqid, question, related) ==
    [faqid |-> faqid, language |-> "EN", question |-> question, answer |-> "a",
     related |-> related]
ImageOf(side, text) == [side |-> side, language |-> "EN", format |-> "webp", image |-> text]

DocA == [EmptyDoc EXCEPT !.cardid = "A", !.type = "LEADER", !.color = "Red", !.rarity = "L"]
DocB == [EmptyDoc EXCEPT !.cardid = "B", !.type = "BATTLE", !.color = "Blue", !.rarity = "SR"]
\* card A with rows in every child table
DocAFull == [DocA EXCEPT !.detail = JArr(<< DetailOf("FRONT", "EN"), DetailOf(Null, "EN") >>),
                         !.faq = JArr(<< FaqOf("f1", "q", JArr(<< "B" >>)) >>),
                         !.image = JArr(<< ImageOf("FRONT", BinaryToString(<< 77, 0, 255 >>)) >>)]
\* documents that one of the five statements rejects
DocBadCard == [DocB EXCEPT !.type = "WRONG"]
DocBadDetail == [DocB EXCEPT !.detail = JArr(<< DetailOf("FRONT", "XX") >>)]
DocBadFaq == [DocB EXCEPT !.faq = JArr(<< FaqOf("f1", Null, JNull) >>)]
DocBadRelated == [DocB EXCEPT !.faq = JArr(<< FaqOf("f1", "q", JArr(<< "A", "A" >>)) >>)]
DocBadImage == [DocB EXCEPT !.image = JArr(<< ImageOf("FRONT", NULLT) >>)]
\* card A with child rows of every language and side, in no order
DocAOrder ==
    [DocA EXCEPT
        !.detail = JArr(<< DetailOf("BACK", "JP"), DetailOf("FRONT", "EN"),
                           DetailOf(Null, "EN"), DetailOf("BACK", "EN"),
                           DetailOf("FRONT", "JP") >>),
        !.faq = JArr(<< [FaqOf("f1", "q", JNull) EXCEPT !.language = "JP"],
                        FaqOf("f2", "q", JNull), FaqOf("f1", "q", JArr(<< "B" >>)) >>),
        !.image = JArr(<< ImageOf(Null, BinaryToString(<< 77 >>)),
                          [ImageOf("BACK", BinaryToString(<< 0 >>)) EXCEPT !.language = "JP"],
                          ImageOf("BACK", BinaryToString(<< 255 >>)),
                          ImageOf("FRONT", BinaryToString(<< 77, 0 >>)) >>)]
\* a card whose detail row has a side that is none of NULL, FRONT, BACK
DocOddSide == [DocB EXCEPT !.detail = JArr(<< DetailOf("XX", "EN") >>)]
\* a card whose cardid differs from that of card A only in the case of a letter
Doca == [DocB EXCEPT !.cardid = "a"]

NoFiles == [n \in {} |-> Malformed]
FilesAB(a, b) == [n \in {"A", "B"} |-> IF n = "A" THEN a ELSE b]
FilesA(a) == [n \in {"A"} |-> a]
FilesB(b) == [n \in {"B"} |-> b]

\* the states of the export / import directory that the environment sets up
DirStates ==
    {[exists |-> FALSE, card |-> FALSE, files |-> NoFiles],
     [exists |-> TRUE, card |-> FALSE, files |-> NoFiles]}
    \cup {[exists |-> TRUE, card |-> TRUE, files |-> f] :
            f \in {NoFiles, FilesA(Json(DocA)), FilesA(Json(DocAFull)), FilesB(Json(DocB)),
                   FilesAB(Json(DocAFull), Json(DocB)), FilesAB(Json(DocAOrder), Json(DocB)),
                   FilesAB(Json(DocA), Json(DocOddSide)), FilesAB(Json(DocA), Json(Doca))}
                  \cup {FilesAB(Json(DocA), b) :
                          b \in {Malformed, Json(DocBadCard), Json(DocBadDetail),
                                 Json(DocBadFaq), Json(DocBadRelated), Json(DocBadImage),
                                 Json(DocA)}}}

\* ------------------------------------------------------------------ state
VARIABLES
    db,          \* the database file: exists, user_version, tables, committed rows
    dir,         \* the export / import directory: path, path/card and its files
    m_disposed,  \* Database::m_disposed of each Database object
    constructed, \* number of Database objects returned to the caller
    leaked,      \* an engine connection is open that no live object owns
    s_result,    \* Database::s_result, the result of the static constructor
    call,        \* the public operation that is running, or "idle"
    pc,          \* where the running operation is
    self,        \* the Database object the operation runs on or constructs
    pass,        \* insert pass of Import / table of the DDL / statement of Vacuum
    names,       \* files (Import) or cards (Export) still to process
    conn,        \* the connection opened by the running Open / Import
    txn,         \* the import transaction: active, rows as the connection sees them
    log,         \* engine calls made by the running operation, in order
    exception,   \* the exception in flight or thrown, "" if none
    dbversion,   \* InitializeInstance's local dbversion, -1 before it is read
    replaced,    \* the card rows of the output file that the running Import deleted
    statement,   \* the sqlite3_stmt of the function that is running, or of the last one
    args,        \* the arguments of the running operation: path, outputfile
    pagesize,    \* Vacuum's local pagesize
    pagecount,   \* Vacuum's local pagecount
    oldsize,     \* Vacuum's out parameter oldsize
    returned,    \* the value Vacuum returns
    rt           \* round-trip harness: phase, store, exported files, import result

\* the locals of Vacuum
sizes == << pagesize, pagecount, oldsize, returned >>

vars == << db, dir, m_disposed, constructed, leaked, s_result, call, pc, self, pass,
           names, conn, txn, log, exception, dbversion, rt, replaced, statement, args,
           sizes >>

Handles == 1..MaxHandles

\* the page size the engine gives a database file it creates
DefaultPageSize == 4096

NoFile == [exists |-> FALSE, version |-> 0, tables |-> {}, rows |-> NoRows,
           page_size |-> DefaultPageSize, pages |-> 0]

\* the pages of a file without unused space: the first page and, for each
\* table, the root pages of the table and of its primary key index
PackedPages(tables) == IF tables = {} THEN 0 ELSE 1 + 2 * Cardinality(tables)
\* the file a connection creates when it opens a path that does not exist
NewFile == [NoFile EXCEPT !.exists = TRUE]

Closed == [open |-> FALSE, extended |-> FALSE, busy_timeout |-> 0, journal_mode |-> "delete",
           encoding |-> "UTF-8", foreign_keys |-> FALSE, changes |-> 0]

NoTxn == [active |-> FALSE, rows |-> NoRows]

RtOff == [phase |-> "off", store |-> NoRows, files |-> NoFiles, ok |-> FALSE, out |-> NoRows]

\* sqlite3_stmt* statement = nullptr: not prepared, nothing bound, not
\* stepped since its last reset, finalized no time. text is the buffer that
\* the bound text parameter refers to: "none", "pinned" (the pinned text of a
\* file, bound without a copy) or "released" (that text, no more pinned);
\* dangling: the statement was stepped while text was "released"
NoStatement == [prepared |-> FALSE, bound |-> FALSE, busy |-> FALSE, finalized |-> 0,
                text |-> "none", dangling |-> FALSE]

\* no operation is running
NoArgs == [path |-> Null, outputfile |-> Null]

\* the engine's calls on a statement
sqlite3_prepare16_v2 == [NoStatement EXCEPT !.prepared = TRUE]
\* sqlite3_bind_text16(statement, 1, pinjson, -1, SQLITE_STATIC): the
\* parameter refers to the pinned text itself
sqlite3_bind_text16(st) == [st EXCEPT !.bound = TRUE, !.text = "pinned"]
sqlite3_step(st) == [st EXCEPT !.busy = TRUE, !.dangling = @ \/ st.text = "released"]
\* variant of sqlite3_clear_bindings: the parameter is left bound
sqlite3_clear_bindings_omitted(st) == st
sqlite3_clear_bindings(st) == [st EXCEPT !.bound = FALSE, !.text = "none"]
\* pin_ptr<wchar_t const> pinjson goes out of scope at the end of the body
\* of the loop, or when an exception leaves it
pinjson_released(st) == [st EXCEPT !.text = IF @ = "pinned" THEN "released" ELSE @]
\* variant of sqlite3_reset: the statement is left as it was stepped
sqlite3_reset_omitted(st) == st
sqlite3_reset(st) == [st EXCEPT !.busy = FALSE]
\* variant of sqlite3_finalize: the statement is left prepared
sqlite3_finalize_omitted(st) == st
sqlite3_finalize(st) ==
    [st EXCEPT !.prepared = FALSE, !.bound = FALSE, !.busy = FALSE, !.finalized = @ + 1,
               !.text = "none"]
\* the number of rows of all the tables
RowCount(rows) ==
    Cardinality(rows.card) + Cardinality(rows.carddetail) + Cardinality(rows.cardfaq)
        + Cardinality(rows.cardfaqrelated) + Cardinality(rows.cardimage)

\* sqlite3_changes: the number of rows changed by the insert, update or
\* delete statement most recently completed on the connection; a statement
\* of another kind leaves the number as it is
sqlite3_changes(c) == c.changes

\* the connection after an insert statement that took the tables from old
\* to new was stepped to its end
InsertCompleted(c, old, new) == [c EXCEPT !.changes = RowCount(new) - RowCount(old)]

\* a parameter cannot be bound to a statement that is not prepared, or that
\* was stepped and not reset since (SQLITE_MISUSE)
BindMisuse(st) == ~st.prepared \/ st.busy

\* where a statement can fail
StatementFaults == {"none", "prepare", "step"}
\* execute_non_query, execute_scalar_int, execute_scalar_int64: the statement
\* is prepared, stepped and finalized; when the prepare fails there is no
\* statement
execute(fault) ==
    IF fault = "prepare" THEN NoStatement
    ELSE sqlite3_finalize(sqlite3_step(sqlite3_prepare16_v2))

\* a live Database object other than the running call's holds a connection
ObjectOpen(k) == k \in 1..constructed /\ ~m_disposed[k]

Init ==
    /\ db = NoFile
    /\ dir \in DirStates
    /\ m_disposed = [k \in Handles |-> FALSE]
    /\ constructed = 0
    /\ leaked = FALSE
    /\ s_result \in {"SQLITE_OK", "SQLITE_ERROR"}
    /\ call = "idle" /\ pc = "idle" /\ self = 0 /\ pass = 0 /\ names = << >>
    /\ conn = Closed
    /\ txn = NoTxn
    /\ log = << >>
    /\ exception = ""
    /\ dbversion = -1
    /\ replaced = {}
    /\ rt = RtOff
    /\ statement = NoStatement /\ args = NoArgs
    /\ pagesize = 0 /\ pagecount = 0 /\ oldsize = 0 /\ returned = 0

\* ------------------------------------------------------------------ helpers of the actions
BusyTimeout == 5000

Logged(e) == log' = Append(log, e)

\* an exception leaves the running public operation
Throw(e) == pc' = "throw" /\ exception' = e

\* some other connection than the running call's has the database file open
OthersOpen == leaked \/ \E k \in Handles : ObjectOpen(k)

\* the SafeHandle of the running call is dropped without being deleted: the
\* connection stays open until the handle is finalized
LeakHandle == leaked' = TRUE /\ conn' = Closed

\* ------------------------------------------------------------------ Database::Open (Database.cpp)
Open(path) ==
    /\ call = "idle" /\ constructed < MaxHandles
    /\ call' = "Open"
    /\ IF path = Null THEN Throw("ArgumentNullException")
       ELSE pc' = "sqlite3_open" /\ UNCHANGED exception
    /\ args' = [path |-> path, outputfile |-> Null]
    /\ UNCHANGED << db, dir, m_disposed, constructed, leaked, s_result, self, pass, names,
                    conn, txn, log, dbversion, rt, replaced, statement, sizes >>

\* sqlite3_open_v2(READWRITE | CREATE) in Open, sqlite3_open16 in Import
sqlite3_open ==
    /\ pc = "sqlite3_open"
    /\ \E fail \in BOOLEAN :
        IF fail
        THEN /\ Throw("SQLiteException")
             /\ UNCHANGED << db, conn, log >>
        ELSE /\ db' = IF db.exists THEN db ELSE NewFile
             /\ conn' = [Closed EXCEPT !.open = TRUE]
             /\ Logged("sqlite3_open")
             /\ pc' = "extended_result_codes"
             /\ UNCHANGED exception
    /\ UNCHANGED << dir, m_disposed, constructed, leaked, s_result, call, self, pass, names,
                    txn, dbversion, rt, replaced,
                    statement, args, sizes >>

\* ------------------------------------------------------------------ Database::InitializeInstance
sqlite3_extended_result_codes ==
    /\ pc = "extended_result_codes"
    /\ conn' = [conn EXCEPT !.extended = TRUE]
    /\ Logged("sqlite3_extended_result_codes")
    /\ pc' = "busy_timeout"
    /\ UNCHANGED << db, dir, m_disposed, constructed, leaked, s_result, call, self, pass,
                    names, txn, exception, dbversion, rt, replaced,
                    statement, args, sizes >>

sqlite3_busy_timeout ==
    /\ pc = "busy_timeout"
    /\ conn' = [conn EXCEPT !.busy_timeout = BusyTimeout]
    /\ Logged("sqlite3_busy_timeout")
    /\ pc' = "journal_mode"
    /\ UNCHANGED << db, dir, m_disposed, constructed, leaked, s_result, call, self, pass,
                    names, txn, exception, dbversion, rt, replaced,
                    statement, args, sizes >>

\* InitializeInstance is not inside a try block of Open or of Import: an
\* exception of one of its statements leaves the call with the handle undeleted
InitializeFailed ==
    /\ Throw("SQLiteException")
    /\ LeakHandle
    /\ UNCHANGED << db, log, dbversion, pass >>

\* variant of pragma_settings: the foreign_keys pragma is left out
pragma_settings_no_foreign_keys ==
    /\ pc \in {"journal_mode", "encoding", "foreign_keys"}
    /\ \E fault \in StatementFaults :
        /\ statement' = execute(fault)
        /\ IF fault # "none" THEN InitializeFailed
           ELSE /\ CASE pc = "journal_mode" ->
                           /\ conn' = [conn EXCEPT !.journal_mode = "wal"]
                           /\ Logged("pragma journal_mode=wal")
                           /\ pc' = "encoding"
                     [] OTHER ->
                           /\ conn' = [conn EXCEPT !.encoding = "UTF-16"]
                           /\ Logged("pragma encoding='UTF-16'")
                           /\ pc' = "user_version"
                /\ UNCHANGED << db, leaked, exception, dbversion, pass >>
    /\ UNCHANGED << dir, m_disposed, constructed, s_result, call, self, names, txn, rt,
                    replaced,
                    args, sizes >>

\* the three pragmas, in the order journal_mode, encoding, foreign_keys
pragma_settings ==
    /\ pc \in {"journal_mode", "encoding", "foreign_keys"}
    /\ \E fault \in StatementFaults :
        /\ statement' = execute(fault)
        /\ IF fault # "none" THEN InitializeFailed
           ELSE /\ CASE pc = "journal_mode" ->
                           /\ conn' = [conn EXCEPT !.journal_mode = "wal"]
                           /\ Logged("pragma journal_mode=wal")
                           /\ pc' = "encoding"
                     [] pc = "encoding" ->
                           /\ conn' = [conn EXCEPT !.encoding = "UTF-16"]
                           /\ Logged("pragma encoding='UTF-16'")
                           /\ pc' = "foreign_keys"
                     [] OTHER ->
                           /\ conn' = [conn EXCEPT !.foreign_keys = TRUE]
                           /\ Logged("pragma foreign_keys=ON")
                           /\ pc' = "user_version"
                /\ UNCHANGED << db, leaked, exception, dbversion, pass >>
    /\ UNCHANGED << dir, m_disposed, constructed, s_result, call, self, names, txn, rt, replaced,
                    args, sizes >>

\* variant of pragma_user_version: the version-1 DDL is applied whatever
\* version was read
pragma_user_version_ungated ==
    /\ pc = "user_version"
    /\ \E fault \in StatementFaults :
        /\ statement' = execute(fault)
        /\ IF fault # "none" THEN InitializeFailed
           ELSE /\ dbversion' = db.version
                /\ Logged("pragma user_version")
                /\ pc' = "create_table" /\ pass' = 1
                /\ UNCHANGED << db, leaked, conn, exception >>
    /\ UNCHANGED << dir, m_disposed, constructed, s_result, call, self, names, txn, rt,
                    replaced,
                    args, sizes >>

\* int dbversion = execute_scalar_int(instance, L"pragma user_version")
pragma_user_version ==
    /\ pc = "user_version"
    /\ \E fault \in StatementFaults :
        /\ statement' = execute(fault)
        /\ IF fault # "none" THEN InitializeFailed
           ELSE /\ dbversion' = db.version
                /\ Logged("pragma user_version")
                /\ IF db.version = 0 THEN pc' = "create_table" /\ pass' = 1
                   ELSE pc' = "initialized" /\ UNCHANGED pass
                /\ UNCHANGED << db, leaked, conn, exception >>
    /\ UNCHANGED << dir, m_disposed, constructed, s_result, call, self, names, txn, rt, replaced,
                    args, sizes >>

\* variant of create_table: the last create table statement is left out
create_table_one_short ==
    /\ pc = "create_table"
    /\ LET t == TableNames[pass] IN
       \E fault \in StatementFaults :
        /\ statement' = execute(IF t \in db.tables THEN "prepare" ELSE fault)
        /\ IF fault # "none" \/ t \in db.tables THEN InitializeFailed
           ELSE /\ db' = [db EXCEPT !.tables = @ \cup {t},
                                    !.pages = PackedPages(db.tables \cup {t})]
                /\ Logged("create table")
                /\ IF pass < Len(TableNames) - 1 THEN pass' = pass + 1 /\ UNCHANGED pc
                   ELSE pc' = "set_user_version" /\ UNCHANGED pass
                /\ UNCHANGED << leaked, conn, exception, dbversion >>
    /\ UNCHANGED << dir, m_disposed, constructed, s_result, call, self, names, txn, rt,
                    replaced,
                    args, sizes >>

\* the five create table statements of schema version 1
create_table ==
    /\ pc = "create_table"
    /\ LET t == TableNames[pass] IN
       \E fault \in StatementFaults :
        /\ statement' = execute(IF t \in db.tables THEN "prepare" ELSE fault)
        /\ IF fault # "none" \/ t \in db.tables THEN InitializeFailed
           ELSE /\ db' = [db EXCEPT !.tables = @ \cup {t},
                                    !.pages = PackedPages(db.tables \cup {t})]
                /\ Logged("create table")
                /\ IF pass < Len(TableNames) THEN pass' = pass + 1 /\ UNCHANGED pc
                   ELSE pc' = "set_user_version" /\ UNCHANGED pass
                /\ UNCHANGED << leaked, conn, exception, dbversion >>
    /\ UNCHANGED << dir, m_disposed, constructed, s_result, call, self, names, txn, rt, replaced,
                    args, sizes >>

\* variant of pragma_set_user_version: the statement persists version 2
pragma_set_user_version_two ==
    /\ pc = "set_user_version"
    /\ \E fault \in StatementFaults :
        /\ statement' = execute(fault)
        /\ IF fault # "none" THEN InitializeFailed
           ELSE /\ db' = [db EXCEPT !.version = 2]
                /\ dbversion' = 1
                /\ Logged("pragma user_version = 1")
                /\ pc' = "initialized"
                /\ UNCHANGED << leaked, conn, exception, pass >>
    /\ UNCHANGED << dir, m_disposed, constructed, s_result, call, self, names, txn, rt,
                    replaced,
                    args, sizes >>

\* execute_non_query(instance, L"pragma user_version = 1"); dbversion = 1
pragma_set_user_version ==
    /\ pc = "set_user_version"
    /\ \E fault \in StatementFaults :
        /\ statement' = execute(fault)
        /\ IF fault # "none" THEN InitializeFailed
           ELSE /\ db' = [db EXCEPT !.version = 1]
                /\ dbversion' = 1
                /\ Logged("pragma user_version = 1")
                /\ pc' = "initialized"
                /\ UNCHANGED << leaked, conn, exception, pass >>
    /\ UNCHANGED << dir, m_disposed, constructed, s_result, call, self, names, txn, rt, replaced,
                    args, sizes >>

\* InitializeInstance returns to Open or to Import
InitializeInstance_return ==
    /\ pc = "initialized"
    /\ pc' = IF call = "Open" THEN "construct" ELSE "begin"
    /\ UNCHANGED << db, dir, m_disposed, constructed, leaked, s_result, call, self, pass,
                    names, conn, txn, log, exception, dbversion, rt, replaced,
                    statement, args, sizes >>

\* try { return gcnew Database(handle); } catch(Exception^) { delete handle; throw; }
Open_construct ==
    /\ pc = "construct" /\ call = "Open"
    /\ IF s_result # "SQLITE_OK"
       THEN /\ Throw("Exception")
            /\ conn' = Closed
            /\ UNCHANGED self
       ELSE /\ self' = constructed + 1
            /\ pc' = "return"
            /\ UNCHANGED << conn, exception >>
    /\ UNCHANGED << db, dir, m_disposed, constructed, leaked, s_result, call, pass, names,
                    txn, log, dbversion, rt, replaced,
                    statement, args, sizes >>

\* ------------------------------------------------------------------ Database::~Database
Dispose(k) ==
    /\ call = "idle" /\ k \in 1..constructed
    /\ m_disposed' = [m_disposed EXCEPT ![k] = TRUE]
    /\ UNCHANGED << db, dir, constructed, leaked, s_result, call, pc, self, pass, names,
                    conn, txn, log, exception, dbversion, rt, replaced,
                    statement, args, sizes >>

\* ------------------------------------------------------------------ end of a public operation
\* control is back at the caller, with the new Database object if one is returned
Return ==
    /\ pc \in {"return", "throw"}
    /\ constructed' = IF pc = "return" /\ call \in {"Open", "Import"} THEN self ELSE constructed
    /\ call' = "idle" /\ pc' = "idle" /\ self' = 0 /\ pass' = 0 /\ names' = << >>
    /\ conn' = Closed /\ log' = << >> /\ exception' = "" /\ dbversion' = -1
    /\ replaced' = {}
    /\ pagesize' = 0 /\ pagecount' = 0 /\ oldsize' = 0 /\ returned' = 0
    /\ args' = NoArgs /\ statement' = NoStatement
    /\ UNCHANGED << db, dir, m_disposed, leaked, s_result, txn, rt >>

\* ------------------------------------------------------------------ Database::Import (Import.cpp)
\* an exception inside the try block of Import
Catch(e) == pc' = "catch" /\ exception' = e

\* variant of Import: the arguments are not compared with null
Import_unchecked(path, outputfile) ==
    /\ call = "idle" /\ constructed < MaxHandles
    /\ call' = "Import"
    /\ pc' = "import_path" /\ UNCHANGED exception
    /\ args' = [path |-> path, outputfile |-> outputfile]
    /\ UNCHANGED << db, dir, m_disposed, constructed, leaked, s_result, self, pass, names,
                    conn, txn, log, dbversion, rt, replaced, statement, sizes >>

Import(path, outputfile) ==
    /\ call = "idle" /\ constructed < MaxHandles
    /\ call' = "Import"
    /\ IF path = Null \/ outputfile = Null THEN Throw("ArgumentNullException")
       ELSE pc' = "import_path" /\ UNCHANGED exception
    /\ args' = [path |-> path, outputfile |-> outputfile]
    /\ UNCHANGED << db, dir, m_disposed, constructed, leaked, s_result, self, pass, names,
                    conn, txn, log, dbversion, rt, replaced, statement, sizes >>

\* if(!Directory::Exists(path)) throw ...
Import_path ==
    /\ pc = "import_path"
    /\ IF ~dir.exists THEN Throw("Exception")
       ELSE pc' = "output_directory" /\ UNCHANGED exception
    /\ UNCHANGED << db, dir, m_disposed, constructed, leaked, s_result, call, self, pass,
                    names, conn, txn, log, dbversion, rt, replaced,
                    statement, args, sizes >>

\* if(!try_create_directory(outdir)) throw ...: the directory of an output
\* file that exists is there; otherwise its creation succeeds or fails
Import_output_directory ==
    /\ pc = "output_directory"
    /\ \E created \in BOOLEAN :
        IF ~created /\ ~db.exists THEN Throw("Exception")
        ELSE pc' = "delete_output" /\ UNCHANGED exception
    /\ UNCHANGED << db, dir, m_disposed, constructed, leaked, s_result, call, self, pass,
                    names, conn, txn, log, dbversion, rt, replaced,
                    statement, args, sizes >>

\* File::Delete(outputfile): a file that a connection has open cannot be deleted
FileDelete ==
    IF OthersOpen THEN Throw("IOException") /\ UNCHANGED db
    ELSE db' = NoFile /\ UNCHANGED exception /\ pc' = IF pc = "delete_output" THEN "sqlite3_open" ELSE "throw"

\* variant of Import_delete_output: an existing output file is opened as it is
Import_delete_output_omitted ==
    /\ pc = "delete_output"
    /\ pc' = "sqlite3_open"
    /\ replaced' = IF db.exists THEN db.rows.card ELSE replaced
    /\ UNCHANGED << db, dir, m_disposed, constructed, leaked, s_result, call, self, pass,
                    names, conn, txn, log, exception, dbversion, rt, statement, args,
                    sizes >>

\* if(File::Exists(outputfile)) File::Delete(outputfile);
Import_delete_output ==
    /\ pc = "delete_output"
    /\ IF db.exists THEN FileDelete
       ELSE pc' = "sqlite3_open" /\ UNCHANGED << db, exception >>
    /\ replaced' = IF db.exists /\ ~db'.exists THEN db.rows.card ELSE replaced
    /\ UNCHANGED << dir, m_disposed, constructed, leaked, s_result, call, self, pass,
                    names, conn, txn, log, dbversion, rt, statement, args, sizes >>

\* variant of Import_begin: no transaction is begun
Import_begin_omitted ==
    /\ pc = "begin"
    /\ pc' = "card_directory"
    /\ UNCHANGED << db, dir, m_disposed, constructed, leaked, s_result, call, self, pass,
                    names, conn, txn, log, exception, dbversion, rt, replaced,
                    statement, args, sizes >>

\* execute_non_query(handle, L"begin immediate transaction")
Import_begin ==
    /\ pc = "begin"
    /\ \E fault \in StatementFaults :
        /\ statement' = execute(fault)
        /\ IF fault # "none" THEN Catch("SQLiteException") /\ UNCHANGED << txn, log >>
           ELSE /\ txn' = [active |-> TRUE, rows |-> db.rows]
                /\ Logged("begin immediate transaction")
                /\ pc' = "card_directory"
                /\ UNCHANGED exception
    /\ UNCHANGED << db, dir, m_disposed, constructed, leaked, s_result, call, self, pass,
                    names, conn, dbversion, rt, replaced,
                    args, sizes >>

\* if(!Directory::Exists(cardpath)) throw ...
Import_card_directory ==
    /\ pc = "card_directory"
    /\ IF ~dir.card THEN Catch("Exception") /\ UNCHANGED pass
       ELSE pc' = "prepare" /\ pass' = 1 /\ UNCHANGED exception
    /\ UNCHANGED << db, dir, m_disposed, constructed, leaked, s_result, call, self,
                    names, conn, txn, log, dbversion, rt, replaced,
                    statement, args, sizes >>

\* sqlite3_prepare16_v2 of the statement of one import_* function, and the
\* Directory::GetFiles of its loop
import_prepare ==
    /\ pc = "prepare"
    /\ \E fail \in BOOLEAN :
        /\ statement' = IF fail THEN NoStatement ELSE sqlite3_prepare16_v2
        /\ IF fail THEN Catch("SQLiteException") /\ UNCHANGED << names, log >>
           ELSE /\ names' = GetFiles(dir.files)
                /\ Logged("prepare")
                /\ pc' = "import_file"
                /\ UNCHANGED exception
    /\ UNCHANGED << db, dir, m_disposed, constructed, leaked, s_result, call, self, pass,
                    conn, txn, dbversion, rt, replaced,
                    args, sizes >>

\* the calls of one iteration of the loop that can fail without regard to the
\* document: File::ReadAllText, and sqlite3_clear_bindings / sqlite3_reset
ImportFaults == {"none", "ReadAllText", "sqlite3_reset"}

\* one iteration of the loop of an import_* function: File::ReadAllText,
\* sqlite3_bind_text16, sqlite3_step, sqlite3_clear_bindings, sqlite3_reset; or
\* the end of the loop. The statement is finalized (finally) when the
\* function is left. The rows go into the transaction when one is active and
\* into the file at once when none is.
import_file ==
    /\ pc = "import_file"
    /\ IF Len(names) = 0
       THEN /\ Logged("finalize")
            /\ statement' = sqlite3_finalize(statement)
            /\ IF pass < Len(TableNames) THEN pc' = "prepare" /\ pass' = pass + 1
               ELSE pc' = "commit" /\ UNCHANGED pass
            /\ UNCHANGED << db, names, txn, exception, conn >>
       ELSE \E fault \in ImportFaults :
            LET r == import_sql(pass, IF txn.active THEN txn.rows ELSE db.rows,
                                dir.files[Head(names)]) IN
            IF fault = "ReadAllText"
            THEN /\ Logged("finalize") /\ Catch("IOException")
                 /\ statement' = sqlite3_finalize(statement)
                 /\ UNCHANGED << db, names, txn, pass, conn >>
            ELSE IF BindMisuse(statement) \/ ~r.ok
            THEN /\ Logged("finalize") /\ Catch("SQLiteException")
                 /\ statement' = IF BindMisuse(statement) THEN sqlite3_finalize(statement)
                                 ELSE sqlite3_finalize(pinjson_released(
                                        sqlite3_step(sqlite3_bind_text16(statement))))
                 /\ conn' = IF BindMisuse(statement) THEN conn
                            ELSE InsertCompleted(conn, r.rows, r.rows)
                 /\ UNCHANGED << db, names, txn, pass >>
            ELSE /\ txn' = IF txn.active THEN [txn EXCEPT !.rows = r.rows] ELSE txn
                 /\ conn' = InsertCompleted(conn, IF txn.active THEN txn.rows ELSE db.rows,
                                            r.rows)
                 /\ db' = IF txn.active THEN db ELSE [db EXCEPT !.rows = r.rows]
                 /\ IF fault = "sqlite3_reset"
                    THEN /\ statement' = sqlite3_finalize(pinjson_released(
                                            sqlite3_clear_bindings(
                                            sqlite3_step(sqlite3_bind_text16(statement)))))
                         /\ log' = log \o << InsertStatements[pass], "finalize" >>
                         /\ Catch("SQLiteException")
                         /\ UNCHANGED << names, pass >>
                    ELSE /\ statement' = pinjson_released(sqlite3_reset(
                                            sqlite3_clear_bindings(
                                            sqlite3_step(sqlite3_bind_text16(statement)))))
                         /\ names' = Tail(names)
                         /\ Logged(InsertStatements[pass])
                         /\ UNCHANGED << pc, pass, exception >>
    /\ UNCHANGED << dir, m_disposed, constructed, leaked, s_result, call, self,
                    dbversion, rt, replaced, args, sizes >>

\* variant of Import_commit: the transaction is left open
Import_commit_omitted ==
    /\ pc = "commit"
    /\ pc' = "construct"
    /\ UNCHANGED << db, dir, m_disposed, constructed, leaked, s_result, call, self, pass,
                    names, conn, txn, log, exception, dbversion, rt, replaced,
                    statement, args, sizes >>

\* execute_non_query(handle, L"commit transaction")
Import_commit ==
    /\ pc = "commit"
    /\ \E fault \in StatementFaults :
        /\ statement' = execute(IF txn.active THEN fault ELSE "step")
        /\ IF fault # "none" \/ ~txn.active
           THEN Catch("SQLiteException") /\ UNCHANGED << db, txn, log >>
           ELSE /\ \E unused \in 0..MaxUnusedPages :
                   db' = [db EXCEPT !.rows = txn.rows,
                                    !.pages = PackedPages(db.tables) + unused]
                /\ txn' = NoTxn
                /\ Logged("commit transaction")
                /\ pc' = "construct"
                /\ UNCHANGED exception
    /\ UNCHANGED << dir, m_disposed, constructed, leaked, s_result, call, self, pass,
                    names, conn, dbversion, rt, replaced,
                    args, sizes >>

\* Database^ database = gcnew Database(handle);
Import_construct ==
    /\ pc = "construct" /\ call = "Import"
    /\ IF s_result # "SQLITE_OK" THEN Catch("Exception") /\ UNCHANGED self
       ELSE self' = constructed + 1 /\ pc' = "vacuum_check" /\ UNCHANGED exception
    /\ UNCHANGED << db, dir, m_disposed, constructed, leaked, s_result, call, pass, names,
                    conn, txn, log, dbversion, rt, replaced,
                    statement, args, sizes >>

\* catch(Exception^) { execute_non_query(handle, L"rollback transaction"); ...
\* the engine fails a rollback when no transaction is active, and that
\* exception leaves the catch block before the handle is deleted
Import_rollback ==
    /\ pc = "catch"
    /\ IF txn.active
       THEN /\ txn' = NoTxn
            /\ statement' = execute("none")
            /\ Logged("rollback transaction")
            /\ pc' = "delete_handle"
            /\ UNCHANGED << leaked, conn, exception >>
       ELSE /\ Throw("SQLiteException")
            /\ statement' = execute("step")
            /\ LeakHandle
            /\ UNCHANGED << txn, log >>
    /\ UNCHANGED << db, dir, m_disposed, constructed, s_result, call, self, pass, names,
                    dbversion, rt, replaced, args, sizes >>

\* delete handle;
Import_delete_handle ==
    /\ pc = "delete_handle"
    /\ conn' = Closed
    /\ pc' = "delete_file"
    /\ UNCHANGED << db, dir, m_disposed, constructed, leaked, s_result, call, self, pass,
                    names, txn, log, exception, dbversion, rt, replaced,
                    statement, args, sizes >>

\* variant of Import_delete_file: the catch block rethrows without deleting
\* the output file
Import_delete_file_omitted ==
    /\ pc = "delete_file"
    /\ pc' = "throw"
    /\ UNCHANGED << db, dir, m_disposed, constructed, leaked, s_result, call, self, pass,
                    names, conn, txn, log, exception, dbversion, rt, replaced,
                    statement, args, sizes >>

\* File::Delete(outputfile); throw;
Import_delete_file ==
    /\ pc = "delete_file"
    /\ FileDelete
    /\ UNCHANGED << dir, m_disposed, constructed, leaked, s_result, call, self, pass,
                    names, conn, txn, log, dbversion, rt, replaced,
                    statement, args, sizes >>

\* ------------------------------------------------------------------ Database::Vacuum (Database.cpp)
\* CHECK_DISPOSED(m_disposed): a disposed object raises ObjectDisposedException
CHECK_DISPOSED(k) == m_disposed[k]

VacuumStatements == << "pragma page_size", "pragma page_count", "vacuum",
                       "pragma page_size", "pragma page_count" >>

\* an exception inside Vacuum: in Import it is caught by Import's catch block
VacuumThrow(e) == IF call = "Import" THEN Catch(e) ELSE Throw(e)

Vacuum(k) ==
    /\ call = "idle" /\ k \in 1..constructed
    /\ call' = "Vacuum" /\ self' = k
    /\ pc' = "vacuum_check"
    /\ UNCHANGED << db, dir, m_disposed, constructed, leaked, s_result, pass, names,
                    conn, txn, log, exception, dbversion, rt, replaced,
                    statement, args, sizes >>

\* variant of Vacuum_check: Vacuum does not look at m_disposed
Vacuum_check_omitted ==
    /\ pc = "vacuum_check"
    /\ pc' = "vacuum" /\ pass' = 1
    /\ UNCHANGED << db, dir, m_disposed, constructed, leaked, s_result, call, self, names,
                    conn, txn, log, exception, dbversion, rt, replaced,
                    statement, args, sizes >>

Vacuum_check ==
    /\ pc = "vacuum_check"
    /\ IF CHECK_DISPOSED(self) THEN VacuumThrow("ObjectDisposedException") /\ UNCHANGED pass
       ELSE pc' = "vacuum" /\ pass' = 1 /\ UNCHANGED exception
    /\ UNCHANGED << db, dir, m_disposed, constructed, leaked, s_result, call, self, names,
                    conn, txn, log, dbversion, rt, replaced,
                    statement, args, sizes >>

\* variant of Vacuum_statement: oldsize is computed from the sizes read after
\* the vacuum statement
Vacuum_statement_after ==
    /\ pc = "vacuum"
    /\ \E fault \in StatementFaults :
        /\ statement' = execute(fault)
        /\ IF fault # "none"
           THEN /\ VacuumThrow("SQLiteException")
                /\ UNCHANGED << db, log, pass, sizes >>
           ELSE /\ Logged(VacuumStatements[pass])
                /\ IF pass < Len(VacuumStatements) THEN pass' = pass + 1 /\ UNCHANGED pc
                   ELSE pc' = "return" /\ UNCHANGED pass
                /\ UNCHANGED exception
                /\ CASE pass = 1 ->
                           /\ pagesize' = db.page_size
                           /\ UNCHANGED << db, pagecount, oldsize, returned >>
                     [] pass = 2 ->
                           /\ pagecount' = db.pages
                           /\ UNCHANGED << db, pagesize, oldsize, returned >>
                     [] pass = 3 ->
                           /\ db' = [db EXCEPT !.pages = PackedPages(db.tables)]
                           /\ UNCHANGED sizes
                     [] pass = 4 ->
                           /\ pagesize' = db.page_size
                           /\ UNCHANGED << db, pagecount, oldsize, returned >>
                     [] OTHER ->
                           /\ pagecount' = db.pages
                           /\ oldsize' = db.pages * pagesize
                           /\ returned' = db.pages * pagesize
                           /\ UNCHANGED << db, pagesize >>
    /\ UNCHANGED << dir, m_disposed, constructed, leaked, s_result, call, self, names,
                    conn, txn, dbversion, rt, replaced, args >>

\* the five statements of Vacuum: page_size and page_count are read and
\* multiplied into oldsize, the file is rebuilt without its unused pages, and
\* page_size and page_count are read again and multiplied into the result
Vacuum_statement ==
    /\ pc = "vacuum"
    /\ \E fault \in StatementFaults :
        /\ statement' = execute(fault)
        /\ IF fault # "none"
           THEN /\ VacuumThrow("SQLiteException")
                /\ UNCHANGED << db, log, pass, sizes >>
           ELSE /\ Logged(VacuumStatements[pass])
                /\ IF pass < Len(VacuumStatements) THEN pass' = pass + 1 /\ UNCHANGED pc
                   ELSE pc' = "return" /\ UNCHANGED pass
                /\ UNCHANGED exception
                /\ CASE pass = 1 ->
                           /\ pagesize' = db.page_size
                           /\ UNCHANGED << db, pagecount, oldsize, returned >>
                     [] pass = 2 ->
                           /\ pagecount' = db.pages
                           /\ oldsize' = db.pages * pagesize
                           /\ UNCHANGED << db, pagesize, returned >>
                     [] pass = 3 ->
                           /\ db' = [db EXCEPT !.pages = PackedPages(db.tables)]
                           /\ UNCHANGED sizes
                     [] pass = 4 ->
                           /\ pagesize' = db.page_size
                           /\ UNCHANGED << db, pagecount, oldsize, returned >>
                     [] OTHER ->
                           /\ pagecount' = db.pages
                           /\ returned' = db.pages * pagesize
                           /\ UNCHANGED << db, pagesize, oldsize >>
    /\ UNCHANGED << dir, m_disposed, constructed, leaked, s_result, call, self, names,
                    conn, txn, dbversion, rt, replaced, args >>

\* ------------------------------------------------------------------ Database::Export (Export.cpp)
Export(k, path) ==
    /\ call = "idle" /\ k \in 1..constructed
    /\ call' = "Export" /\ self' = k
    /\ IF CHECK_DISPOSED(k) THEN Throw("ObjectDisposedException") /\ UNCHANGED pass
       ELSE IF path = Null THEN Throw("ArgumentNullException") /\ UNCHANGED pass
       ELSE pc' = "create_directory" /\ pass' = 1 /\ UNCHANGED exception
    /\ args' = [path |-> path, outputfile |-> Null]
    /\ UNCHANGED << db, dir, m_disposed, constructed, leaked, s_result, names,
                    conn, txn, log, dbversion, rt, replaced, statement, sizes >>

\* variant of try_create_directory: Export goes on when a directory could not
\* be created
try_create_directory_unchecked ==
    /\ pc = "create_directory"
    /\ LET there == IF pass = 1 THEN dir.exists ELSE dir.card IN
       \E created \in BOOLEAN :
        /\ dir' = IF there \/ created
                  THEN IF pass = 1 THEN [dir EXCEPT !.exists = TRUE]
                       ELSE [dir EXCEPT !.card = TRUE]
                  ELSE dir
        /\ IF pass = 1 THEN pass' = 2 /\ UNCHANGED pc
           ELSE pc' = "export_prepare" /\ UNCHANGED pass
        /\ UNCHANGED exception
    /\ UNCHANGED << db, m_disposed, constructed, leaked, s_result, call, self, names,
                    conn, txn, log, dbversion, rt, replaced,
                    statement, args, sizes >>

\* try_create_directory(path), then try_create_directory(cardpath)
try_create_directory ==
    /\ pc = "create_directory"
    /\ LET there == IF pass = 1 THEN dir.exists ELSE dir.card IN
       \E created \in BOOLEAN :
        IF ~there /\ ~created THEN Throw("Exception") /\ UNCHANGED << dir, pass >>
        ELSE /\ dir' = IF pass = 1 THEN [dir EXCEPT !.exists = TRUE]
                       ELSE [dir EXCEPT !.card = TRUE]
             /\ IF pass = 1 THEN pass' = 2 /\ UNCHANGED pc
                ELSE pc' = "export_prepare" /\ UNCHANGED pass
             /\ UNCHANGED exception
    /\ UNCHANGED << db, m_disposed, constructed, leaked, s_result, call, self, names,
                    conn, txn, log, dbversion, rt, replaced,
                    statement, args, sizes >>

\* sqlite3_prepare16_v2 of the export query
export_prepare ==
    /\ pc = "export_prepare"
    /\ \E fail \in BOOLEAN :
        /\ statement' = IF fail \/ ~(Range(TableNames) \subseteq db.tables)
                        THEN NoStatement ELSE sqlite3_prepare16_v2
        /\ IF fail \/ ~(Range(TableNames) \subseteq db.tables)
           THEN Throw("SQLiteException") /\ UNCHANGED << names, log >>
           ELSE /\ LET cards == CardOrder(db.rows)
                   IN  names' = [i \in 1..Len(cards) |-> cards[i].cardid]
                /\ Logged("prepare")
                /\ pc' = "export_row"
                /\ UNCHANGED exception
    /\ UNCHANGED << db, dir, m_disposed, constructed, leaked, s_result, call, self, pass,
                    conn, txn, dbversion, rt, replaced,
                    args, sizes >>

\* variant of export_row: a failure removes the files of the card directory
export_row_compensated ==
    /\ pc = "export_row"
    /\ IF Len(names) = 0
       THEN /\ Logged("finalize") /\ pc' = "return"
            /\ statement' = sqlite3_finalize(sqlite3_step(statement))
            /\ UNCHANGED << dir, names, exception >>
       ELSE \E fault \in {"none", "sqlite3_step", "WriteAllText"} :
            IF fault = "none"
            THEN /\ dir' = [dir EXCEPT !.files = WriteCardFiles(@, db.rows,
                                SelectSeq(CardOrder(db.rows),
                                          LAMBDA c : c.cardid = Head(names)))]
                 /\ names' = Tail(names)
                 /\ statement' = sqlite3_step(statement)
                 /\ UNCHANGED << pc, log, exception >>
            ELSE /\ Logged("finalize")
                 /\ statement' = sqlite3_finalize(sqlite3_step(statement))
                 /\ Throw(IF fault = "sqlite3_step" THEN "SQLiteException" ELSE "IOException")
                 /\ dir' = [dir EXCEPT !.files = NoFiles]
                 /\ UNCHANGED names
    /\ UNCHANGED << db, m_disposed, constructed, leaked, s_result, call, self, pass,
                    conn, txn, dbversion, rt, replaced, args, sizes >>

\* one row of the export query: File::WriteAllText of its document, or the
\* end of the rows; the statement is finalized (finally) in every case
export_row ==
    /\ pc = "export_row"
    /\ IF Len(names) = 0
       THEN /\ Logged("finalize") /\ pc' = "return"
            /\ statement' = sqlite3_finalize(sqlite3_step(statement))
            /\ UNCHANGED << dir, names, exception >>
       ELSE \E fault \in {"none", "sqlite3_step", "WriteAllText"} :
            IF fault = "none"
            THEN /\ dir' = [dir EXCEPT !.files = WriteCardFiles(@, db.rows,
                                SelectSeq(CardOrder(db.rows),
                                          LAMBDA c : c.cardid = Head(names)))]
                 /\ names' = Tail(names)
                 /\ statement' = sqlite3_step(statement)
                 /\ UNCHANGED << pc, log, exception >>
            ELSE /\ Logged("finalize")
                 /\ statement' = sqlite3_finalize(sqlite3_step(statement))
                 /\ Throw(IF fault = "sqlite3_step" THEN "SQLiteException" ELSE "IOException")
                 /\ UNCHANGED << dir, names >>
    /\ UNCHANGED << db, m_disposed, constructed, leaked, s_result, call, self, pass,
                    conn, txn, dbversion, rt, replaced, args, sizes >>

\* ------------------------------------------------------------------ environment
\* the user changes the export / import directory between two operations
SetDirectory ==
    /\ call = "idle"
    /\ dir' \in DirStates \ {dir}
    /\ UNCHANGED << db, m_disposed, constructed, leaked, s_result, call, pc, self, pass,
                    names, conn, txn, log, exception, dbversion, rt, replaced,
                    statement, args, sizes >>

\* the garbage collector finalizes the unreferenced SafeHandle: sqlite3_close
Finalize ==
    /\ call = "idle" /\ leaked
    /\ leaked' = FALSE
    /\ UNCHANGED << db, dir, m_disposed, constructed, s_result, call, pc, self, pass,
                    names, conn, txn, log, exception, dbversion, rt, replaced,
                    statement, args, sizes >>

\* ------------------------------------------------------------------ specification
Paths == {Null, "path"}

Next ==
    \/ \E path \in Paths : Open(path)
    \/ sqlite3_open
    \/ sqlite3_extended_result_codes
    \/ sqlite3_busy_timeout
    \/ pragma_settings
    \/ pragma_user_version
    \/ create_table
    \/ pragma_set_user_version
    \/ InitializeInstance_return
    \/ Open_construct
    \/ \E path \in Paths, outputfile \in Paths : Import(path, outputfile)
    \/ Import_path
    \/ Import_output_directory
    \/ Import_delete_output
    \/ Import_begin
    \/ Import_card_directory
    \/ import_prepare
    \/ import_file
    \/ Import_commit
    \/ Import_construct
    \/ Import_rollback
    \/ Import_delete_handle
    \/ Import_delete_file
    \/ \E k \in Handles : Vacuum(k)
    \/ Vacuum_check
    \/ Vacuum_statement
    \/ \E k \in Handles, path \in Paths : Export(k, path)
    \/ try_create_directory
    \/ export_prepare
    \/ export_row
    \/ \E k \in Handles : Dispose(k)
    \/ Return
    \/ SetDirectory
    \/ Finalize

Spec == Init /\ [][Next]_vars

\* ------------------------------------------------------------------ round trip of a store
\* Stores that satisfy the version-1 schema, drawn from a few values per
\* column; Export writes such a store to a fresh directory and Import reads
\* that directory into a new store.
SampleBytes == {0, 77, 255}
Blobs == SeqsUpTo(SampleBytes, MaxBlobLen)

CardRow(d) == [cardid |-> d.cardid, type |-> d.type, color |-> d.color, rarity |-> d.rarity]
SampleCards == {CardRow(DocA), CardRow(DocB)}

DetailUniverse(cards) ==
    {[cardid |-> c.cardid, side |-> s, language |-> l, name |-> "n", cost |-> k,
      specifiedcost |-> Null, power |-> Null, combopower |-> Null, traits |-> Null,
      effect |-> Null] :
        c \in cards, s \in {Null, "FRONT", "BACK"}, l \in {"EN", "JP"}, k \in {Null, "3"}}
FaqUniverse(cards) ==
    {[cardid |-> c.cardid, faqid |-> f, language |-> "EN", question |-> "q", answer |-> a] :
        c \in cards, f \in {"f1", "f2"}, a \in {Null, "a"}}
RelatedUniverse(cards) ==
    {[cardid |-> c.cardid, faqid |-> f, language |-> "EN", relatedcardid |-> x] :
        c \in cards, f \in {Null, "f1", "f2"}, x \in {"A", "B"}}
ImageUniverse(cards) ==
    {[cardid |-> c.cardid, side |-> s, language |-> "EN", format |-> "webp", image |-> b] :
        c \in cards, s \in {Null, "FRONT"}, b \in Blobs}

KeysUnique(rows, t) ==
    \A r1, r2 \in rows[t] : r1 # r2 => ~KeyClash(KeyOf(t, r1), KeyOf(t, r2))

\* every row satisfies the constraints of the version-1 DDL
SchemaHolds(rows) ==
    /\ \A r \in rows.card : card_constraints(rows, r)
    /\ \A r \in rows.carddetail : carddetail_constraints(rows, r)
    /\ \A r \in rows.cardfaq : cardfaq_constraints(rows, r)
    /\ \A r \in rows.cardfaqrelated : cardfaqrelated_constraints(rows, r)
    /\ \A r \in rows.cardimage : cardimage_constraints(rows, r)
    /\ \A i \in 1..Len(TableNames) : KeysUnique(rows, TableNames[i])

RTStores ==
    LET of(cards) ==
            {[NoRows EXCEPT !.card = cards, !.carddetail = d] :
                d \in SubsetsUpTo(DetailUniverse(cards), MaxChildRows)}
            \cup {[NoRows EXCEPT !.card = cards, !.cardfaq = q, !.cardfaqrelated = x] :
                    q \in SubsetsUpTo(FaqUniverse(cards), MaxChildRows),
                    x \in SubsetsUpTo(RelatedUniverse(cards), MaxChildRows)}
            \cup {[NoRows EXCEPT !.card = cards, !.cardimage = m] :
                    m \in SubsetsUpTo(ImageUniverse(cards), 1)}
    IN  {rows \in UNION {of(cards) : cards \in SUBSET SampleCards} : SchemaHolds(rows)}

RTInit ==
    /\ db = NoFile
    /\ dir = [exists |-> FALSE, card |-> FALSE, files |-> NoFiles]
    /\ m_disposed = [k \in Handles |-> FALSE]
    /\ constructed = 0 /\ leaked = FALSE /\ s_result = "SQLITE_OK"
    /\ call = "idle" /\ pc = "idle" /\ self = 0 /\ pass = 0 /\ names = << >>
    /\ conn = Closed /\ txn = NoTxn /\ log = << >> /\ exception = "" /\ dbversion = -1
    /\ replaced = {}
    /\ statement = NoStatement /\ args = NoArgs
    /\ pagesize = 0 /\ pagecount = 0 /\ oldsize = 0 /\ returned = 0
    /\ rt \in {[RtOff EXCEPT !.phase = "store", !.store = x] : x \in RTStores}

rtmain == << db, dir, m_disposed, constructed, leaked, s_result, call, pc, self, pass,
             names, conn, txn, log, exception, dbversion, replaced, statement, args,
             sizes >>

\* Export(path) of the store into an empty directory
RTExport ==
    /\ rt.phase = "store"
    /\ rt' = [rt EXCEPT !.phase = "exported", !.files = export_card(NoFiles, rt.store)]
    /\ UNCHANGED rtmain

\* Import(path, outputfile) of that directory: the five insert passes
RTImport ==
    /\ rt.phase = "exported"
    /\ LET r == import_passes(1, NoRows, rt.files)
       IN  rt' = [rt EXCEPT !.phase = "imported", !.ok = r.ok,
                            !.out = IF r.ok THEN r.rows ELSE NoRows]
    /\ UNCHANGED rtmain

RTNext == RTExport \/ RTImport

SpecRT == RTInit /\ [][RTNext]_vars

\* ------------------------------------------------------------------ properties
Logs(e) == e \in Range(log)
\* position of the first / last occurrence of e in the log, 0 if none
FirstAt(e) == IF Logs(e) THEN CHOOSE i \in 1..Len(log) : log[i] = e /\ \A j \in 1..(i - 1) : log[j] # e
              ELSE 0
LastAt(e) == IF Logs(e) THEN CHOOSE i \in 1..Len(log) : log[i] = e /\ \A j \in (i + 1)..Len(log) : log[j] # e
             ELSE 0
AllTables == Range(TableNames)

\* Import has failed after the first insert statement was prepared and before
\* the transaction was committed
InsertPhaseFailed ==
    /\ call = "Import" /\ pc = "throw"
    /\ Logs("begin immediate transaction") /\ Logs("prepare")
    /\ ~Logs("commit transaction")
    /\ log[Len(log)] \in {"finalize", "rollback transaction"}

RoundTripSameRows ==
    rt.phase = "imported" => rt.ok /\ rt.out = rt.store

\* C3: every image blob of the exported store, of any length from zero, is in
\* the imported store byte for byte.
BinaryFidelity ==
    rt.phase = "imported" =>
        \A r \in rt.store.cardimage : rt.ok /\ r \in rt.out.cardimage

MigrationStates == {"create_table", "set_user_version"}

\* C4: while the database file exists its user_version never decreases (a file
\* that Import deletes is the end of that store), and no step taken on a store
\* at version 1 is in, or enters, the version-1 DDL of InitializeInstance or
\* changes the tables or the version.
MigrationForwardOnce ==
    [][ /\ (db.exists /\ db'.exists) => db'.version >= db.version
        /\ db.version = 1 =>
            /\ pc \notin MigrationStates /\ pc' \notin MigrationStates
            /\ db'.exists => (db'.version = 1 /\ db'.tables = db.tables)
      ]_vars

\* an Open of a store already at version 1 has run InitializeInstance without
\* any DDL
ReopenedWithoutDDL ==
    /\ call = "Open" /\ pc = "construct" /\ dbversion = 1
    /\ ~Logs("create table") /\ ~Logs("pragma user_version = 1")

\* C5: in every state, also inside a migration, user_version = 1 implies that
\* the five tables exist; InitializeInstance sets the version only after the
\* five create table statements; and an Open or Import that returns, returns
\* on a store at version 1.
VersionOneHasTables ==
    /\ db.version = 1 => AllTables \subseteq db.tables
    /\ pc = "set_user_version" => (db.version = 0 /\ AllTables \subseteq db.tables)
    /\ (call \in {"Open", "Import"} /\ pc = "return") => (db.exists /\ db.version = 1)

\* a migration from version 0 has just set the version
MigratedFromZero ==
    /\ pc = "initialized" /\ log[Len(log)] = "pragma user_version = 1"
    /\ db.version = 1

\* C6: the persisted version is 0 or 1 in every state, and the assertion
\* dbversion == 1 at the end of InitializeInstance holds.
VersionZeroOrOne ==
    /\ db.version \in {0, 1}
    /\ pc = "initialized" => dbversion = 1

\* InitializeInstance reaches its assertion on a store it did not migrate
AssertionReachedOnOldStore ==
    /\ call = "Open" /\ pc = "initialized" /\ dbversion = 1
    /\ ~Logs("create table") /\ ~Logs("pragma user_version = 1")
    /\ db.version = 1 /\ db.rows.card # {}

SetupCalls == << "sqlite3_open", "sqlite3_extended_result_codes", "sqlite3_busy_timeout",
                 "pragma journal_mode=wal", "pragma encoding='UTF-16'",
                 "pragma foreign_keys=ON" >>
AfterSetup == {"user_version", "create_table", "set_user_version", "initialized",
               "construct", "begin", "card_directory", "prepare", "import_file", "commit"}

\* C7: in every Open and every Import, whatever the version of the store, when
\* the version is read and when any DDL or insert statement runs, the
\* connection has extended result codes on, busy timeout 5000, journal mode
\* WAL, encoding UTF-16 and foreign keys on, and these five were the first
\* calls made on the connection.
ConnectionSetupFirst ==
    /\ (call \in {"Open", "Import"} /\ pc \in AfterSetup) =>
        /\ conn.open /\ conn.extended /\ conn.busy_timeout = BusyTimeout
        /\ conn.journal_mode = "wal" /\ conn.encoding = "UTF-16" /\ conn.foreign_keys
        /\ Len(log) >= Len(SetupCalls) /\ SubSeq(log, 1, Len(SetupCalls)) = SetupCalls
    /\ \A i \in 1..Len(log) :
        log[i] \in ({"pragma user_version", "create table", "pragma user_version = 1",
                     "begin immediate transaction"} \cup Range(InsertStatements))
            => (i > Len(SetupCalls) /\ SubSeq(log, 1, Len(SetupCalls)) = SetupCalls)

\* an Import is inserting rows into a store it has just migrated
InsertingAfterSetup ==
    /\ call = "Import" /\ pc = "import_file" /\ Logs("insert into card")
    /\ Logs("create table")

\* C8: m_disposed never goes back to false, and an Export or Vacuum on a
\* disposed object does nothing but raise ObjectDisposedException: it changes
\* neither the database file nor the directory and makes no engine call.
DisposedIsTerminal ==
    [][ /\ \A k \in Handles : m_disposed[k] => m_disposed'[k]
        /\ (call' \in {"Export", "Vacuum"} /\ m_disposed'[self']) =>
            /\ pc' \in {"vacuum_check", "throw"}
            /\ pc' = "throw" => exception' = "ObjectDisposedException"
            /\ db' = db /\ dir' = dir /\ log' = << >>
      ]_vars

\* a Vacuum on a disposed object has raised
VacuumOnDisposed ==
    /\ call = "Vacuum" /\ m_disposed[self] /\ pc = "throw"
    /\ exception = "ObjectDisposedException"

\* C9: a successful Import returns a store at version 1 whose tables hold
\* exactly the rows that the five insert passes make of the files of the card
\* directory, whatever the output file held before.
ImportBuildsNewStore ==
    (call = "Import" /\ pc = "return") =>
        /\ db.exists /\ db.version = 1 /\ AllTables \subseteq db.tables
        /\ import_passes(1, NoRows, dir.files).ok
        /\ db.rows = import_passes(1, NoRows, dir.files).rows

\* a successful Import over an output file that held other rows
ImportOverOtherRows ==
    /\ call = "Import" /\ pc = "return"
    /\ \E r \in replaced : r \notin db.rows.card

\* C10: a successful Import has made, in this order, begin immediate
\* transaction, every insert, commit transaction and then the statements of
\* Vacuum; Vacuum runs with no transaction open; and the object returned is
\* not disposed and holds the open connection.
ImportSuccessOrder ==
    /\ (pc \in {"vacuum_check", "vacuum"}) => ~txn.active
    /\ (call = "Import" /\ pc = "return") =>
        /\ Logs("begin immediate transaction") /\ Logs("commit transaction") /\ Logs("vacuum")
        /\ FirstAt("begin immediate transaction") < FirstAt("commit transaction")
        /\ FirstAt("commit transaction") < FirstAt("pragma page_size")
        /\ FirstAt("pragma page_size") < FirstAt("vacuum")
        /\ \A i \in 1..Len(log) :
            log[i] \in Range(InsertStatements) =>
                /\ i > FirstAt("begin immediate transaction")
                /\ i < FirstAt("commit transaction")
        /\ ~Logs("rollback transaction")
        /\ ~txn.active
        /\ self = constructed + 1 /\ ~m_disposed[self] /\ conn.open

\* a successful Import that inserted rows into every table
ImportReturnedAllTables ==
    /\ call = "Import" /\ pc = "return"
    /\ \A i \in 1..Len(InsertStatements) : Logs(InsertStatements[i])
    /\ db.rows.cardimage # {} /\ db.rows.cardfaqrelated # {}

\* the document that the file of card row c holds after an export
ExportedDoc(c) == dir.files[JsonFile(c.cardid)].doc
ChildRows(t, cardid) == {r \in db.rows[t] : r.cardid = cardid}
RelatedRows(cardid, q) ==
    {r \in db.rows.cardfaqrelated :
        r.cardid = cardid /\ r.faqid = q.faqid /\ r.language = q.language}
ImportReturned == call = "Import" /\ pc = "return"
ExportReturned == call = "Export" /\ pc = "return"

\* C11: after a successful Import, a document whose detail, faq or image
\* member is null has given no row of that child table to its card, and a FAQ
\* entry whose related member is null has given no cardfaqrelated row; after a
\* successful Export, the document of a card has the member null exactly when
\* the card has no row of that child table, never an empty array, and likewise
\* the related member of each of its FAQ entries.
NullHandling ==
    /\ ImportReturned =>
        \A n \in DOMAIN dir.files :
            LET d == dir.files[n].doc IN
            /\ d.detail.null => ChildRows("carddetail", d.cardid) = {}
            /\ d.faq.null => ChildRows("cardfaq", d.cardid) = {}
            /\ d.image.null => ChildRows("cardimage", d.cardid) = {}
            /\ \A i \in 1..Len(d.faq.items) :
                d.faq.items[i].related.null => RelatedRows(d.cardid, d.faq.items[i]) = {}
    /\ ExportReturned =>
        \A c \in db.rows.card :
            LET d == ExportedDoc(c) IN
            d.cardid = c.cardid =>
                /\ d.detail.null <=> ChildRows("carddetail", c.cardid) = {}
                /\ d.faq.null <=> ChildRows("cardfaq", c.cardid) = {}
                /\ d.image.null <=> ChildRows("cardimage", c.cardid) = {}
                /\ \A m \in {d.detail, d.faq, d.image} : m.null <=> Len(m.items) = 0
                /\ \A i \in 1..Len(d.faq.items) :
                    LET q == d.faq.items[i] IN
                    /\ q.related.null <=> RelatedRows(c.cardid, q) = {}
                    /\ q.related.null <=> Len(q.related.items) = 0

\* an Export has written a card without child rows, and a card with a FAQ
\* entry without related cards next to one with related cards
ExportedNullMembers ==
    /\ ExportReturned
    /\ \E c \in db.rows.card :
        ExportedDoc(c).cardid = c.cardid /\ ExportedDoc(c).detail.null
    /\ \E c \in db.rows.card :
        LET q == ExportedDoc(c).faq.items IN
        /\ ExportedDoc(c).cardid = c.cardid
        /\ \E i, j \in 1..Len(q) : q[i].related.null /\ ~q[j].related.null

\* items is in the order (language ascending, side descending); NULL is the
\* smallest value
SortedLanguageSide(items) ==
    \A i, j \in 1..Len(items) :
        i < j => \/ Rank(items[i].language) < Rank(items[j].language)
                 \/ /\ items[i].language = items[j].language
                    /\ Rank(items[i].side) >= Rank(items[j].side)
\* items is in the order (language ascending, faqid ascending)
SortedLanguageFaqid(items) ==
    \A i, j \in 1..Len(items) :
        i < j => \/ Rank(items[i].language) < Rank(items[j].language)
                 \/ /\ items[i].language = items[j].language
                    /\ Rank(items[i].faqid) <= Rank(items[j].faqid)

\* C12: in every document that a successful Export has written, the detail
\* array is in the order (language ascending, side descending), the faq array
\* in the order (language ascending, faqid ascending) and the image array in
\* the order (language ascending, side descending).
ExportOrdering ==
    ExportReturned =>
        \A c \in db.rows.card :
            LET d == ExportedDoc(c) IN
            d.cardid = c.cardid =>
                /\ SortedLanguageSide(d.detail.items)
                /\ SortedLanguageFaqid(d.faq.items)
                /\ SortedLanguageSide(d.image.items)

\* an Export has written a card with detail rows of both languages and both
\* sides, several FAQ entries and several images
ExportedAllCombinations ==
    /\ ExportReturned
    /\ \E c \in db.rows.card :
        LET d == ExportedDoc(c) IN
        /\ d.cardid = c.cardid
        /\ \A l \in {"EN", "JP"}, sd \in {"FRONT", "BACK"} :
            \E i \in 1..Len(d.detail.items) :
                d.detail.items[i].language = l /\ d.detail.items[i].side = sd
        /\ Len(d.faq.items) >= 3 /\ Len(d.image.items) >= 4

\* C13: after a successful Export, for every card row with a cardid that is
\* not NULL the file <cardid>.json of the card directory exists and holds the
\* document of that card.
OneFilePerCard ==
    ExportReturned =>
        \A c \in db.rows.card :
            c.cardid # Null =>
                /\ JsonFile(c.cardid) \in DOMAIN dir.files
                /\ ExportedDoc(c) = export_card_sql(db.rows, c)

\* C14: when Export cannot create path or path/card it raises an exception
\* without having prepared the export query and without having written a
\* file, and the query is prepared and files are written only when both
\* directories exist.
ExportDirectoryFailure ==
    [][ /\ (pc = "create_directory" /\ pc' = "throw") =>
            /\ exception' = "Exception"
            /\ dir'.files = dir.files /\ db' = db
            /\ log' = << >> /\ statement' = statement
        /\ (call' = "Export" /\ pc' \in {"export_prepare", "export_row", "return"}) =>
            (dir'.exists /\ dir'.card)
      ]_vars

\* Export has created path and has failed to create path/card
CardDirectoryNotCreated ==
    /\ call = "Export" /\ pc = "throw" /\ exception = "Exception"
    /\ dir.exists /\ ~dir.card /\ log = << >>

FileSize == db.page_size * db.pages

\* C15: when the vacuum statement of Vacuum runs, oldsize is page_size x
\* page_count of the file as it is before the statement, and it is not
\* assigned again; the value Vacuum returns is page_size x page_count of the
\* file as the vacuum statement left it.
VacuumSizeReport ==
    [][ /\ (pc = "vacuum" /\ pass = 3 /\ pc' = "vacuum") =>
            (oldsize = FileSize /\ db'.pages = PackedPages(db.tables))
        /\ (pc = "vacuum" /\ pass >= 3) => oldsize' = oldsize
        /\ (pc = "vacuum" /\ pc' = "return") =>
            (returned' = FileSize /\ db' = db /\ db.pages = PackedPages(db.tables))
      ]_vars

\* a Vacuum has returned less than the size it reports as the old size
VacuumShrank ==
    /\ pc = "return" /\ call \in {"Vacuum", "Import"}
    /\ returned > 0 /\ oldsize > returned

\* the running operation was called with null for a path
NullArgument ==
    \/ call \in {"Open", "Export"} /\ args.path = Null
    \/ call = "Import" /\ (args.path = Null \/ args.outputfile = Null)

OperationEnded == call # "idle" /\ pc \in {"return", "throw"}

\* a statement was prepared since the operation began and is prepared no more
StatementGone == ~statement.prepared /\ statement # NoStatement

\* C17: a statement that was prepared is finalized exactly once when the
\* function which prepared it is left, by a return or by an exception: a
\* statement is prepared only inside the loop of import_* or export_card,
\* one that is gone was finalized once, none is finalized twice, and none is
\* prepared when an operation has ended.
StatementFinalization ==
    /\ statement.finalized <= 1
    /\ statement.prepared => (pc \in {"import_file", "export_row"} /\ statement.finalized = 0)
    /\ StatementGone => statement.finalized = 1
    /\ OperationEnded => ~statement.prepared

\* an import_* function was left by the exception of a failed iteration, and
\* its statement was finalized
ImportLoopFailedFinalized ==
    /\ call = "Import" /\ pc = "catch" /\ exception \in {"IOException", "SQLiteException"}
    /\ Len(log) > 0 /\ log[Len(log)] = "finalize"
    /\ StatementGone

\* how many times the running operation has logged e
Occurrences(e) == Cardinality({i \in 1..Len(log) : log[i] = e})

\* the insert phase of the running Import is over
InsertPhaseOver ==
    /\ call = "Import"
    /\ pc \in {"commit", "construct", "vacuum_check", "vacuum", "return"}

\* C18: in the insert phase of Import one statement is prepared per table,
\* whatever the number of files: at the start of every iteration of the loop
\* of pass p exactly p statements were prepared, the statement of the pass is
\* prepared, reset and has no parameter bound, and it has been stepped once
\* for each file read so far; when the phase is over five statements were
\* prepared and five finalized.
StatementReuse ==
    /\ (call = "Import" /\ pc = "import_file") =>
        /\ Occurrences("prepare") = pass
        /\ statement.prepared /\ ~statement.bound /\ ~statement.busy
        /\ Occurrences(InsertStatements[pass]) = Len(GetFiles(dir.files)) - Len(names)
    /\ InsertPhaseOver =>
        /\ Occurrences("prepare") = Len(TableNames)
        /\ Occurrences("finalize") = Len(TableNames)
        /\ \A p \in 1..Len(TableNames) :
                Occurrences(InsertStatements[p]) = Len(GetFiles(dir.files))

\* the last statement of an Import of two files has been used for the first
\* file and is at the start of the iteration of the second
SecondIterationOfLastPass ==
    /\ call = "Import" /\ pc = "import_file" /\ pass = Len(TableNames)
    /\ Len(GetFiles(dir.files)) = 2 /\ Len(names) = 1
    /\ Occurrences(InsertStatements[pass]) = 1

\* the rows that a connection other than the importing one reads in the
\* output file: the committed ones
ObservedRows == db.rows

\* every statement of the insert phase has been stepped for every file
InsertsComplete ==
    \A p \in 1..Len(TableNames) : Occurrences(InsertStatements[p]) = Len(GetFiles(dir.files))

\* C19: begin immediate transaction precedes the first insert of an Import
\* and the inserts are made inside the transaction; while the Import holds its
\* connection another connection reads no row at all in the output file, or
\* the transaction is committed and every insert of the import was made.
ImportIsolation ==
    /\ (call = "Import" /\ pc = "import_file") => txn.active
    /\ call = "Import" =>
            \A i \in 1..Len(log) :
                log[i] \in Range(InsertStatements) =>
                    /\ Logs("begin immediate transaction")
                    /\ FirstAt("begin immediate transaction") < i
    /\ (call = "Import" /\ conn.open) =>
        \/ ObservedRows = NoRows
        \/ Logs("commit transaction") /\ InsertsComplete /\ ~txn.active

\* the Import has inserted card rows and child rows in its transaction and
\* none of them is committed
UncommittedRowsUnobserved ==
    /\ call = "Import" /\ pc = "import_file" /\ txn.active
    /\ txn.rows.card # {} /\ txn.rows.carddetail # {}
    /\ ObservedRows = NoRows

\* the rows of the tables that have a language column / a side column
LanguageRows == db.rows.carddetail \cup db.rows.cardfaq \cup db.rows.cardfaqrelated
                    \cup db.rows.cardimage
SideRows == db.rows.carddetail \cup db.rows.cardimage

\* every persisted row has its type, color, rarity and language in the sets of
\* the check constraints
ClosedTypeColorRarityLanguage ==
    /\ \A c \in db.rows.card :
        /\ c.type \in {"LEADER", "BATTLE", "EXTRA"}
        /\ c.color \in {"Red", "Blue", "Green", "Yellow", "Black"}
        /\ c.rarity \in {"L", "C", "R", "SR", "SCR", "PR"}
    /\ \A r \in LanguageRows : r.language \in {"EN", "JP"}

\* C20: every persisted row has its type, color, rarity and language in the
\* sets of the check constraints, and the side of every carddetail and
\* cardimage row is NULL, FRONT or BACK.
ClosedValueSets ==
    /\ ClosedTypeColorRarityLanguage
    /\ \A r \in SideRows : r.side \in {Null, "FRONT", "BACK"}

\* every child row of rows references an existing parent row
ReferencesHold(rows) ==
    /\ \A r \in rows.carddetail \cup rows.cardfaq \cup rows.cardimage :
            \E c \in rows.card : c.cardid = r.cardid
    /\ \A r \in rows.cardfaqrelated :
            \E q \in rows.cardfaq : faq_key(q) = faq_key(r)

\* C21: the committed rows of the store, and the rows inside the import
\* transaction at each of its steps, have every carddetail, cardfaq and
\* cardimage row referencing an existing card row and every cardfaqrelated
\* row referencing an existing cardfaq row; and in an Import every insert
\* into card precedes every insert into a child table and every insert into
\* cardfaq precedes every insert into cardfaqrelated.
ReferentialIntegrity ==
    /\ ReferencesHold(db.rows)
    /\ ReferencesHold(txn.rows)
    /\ call = "Import" =>
        \A i, j \in 1..Len(log) :
            /\ (log[i] = "insert into card"
                    /\ log[j] \in Range(InsertStatements) \ {"insert into card"}) => i < j
            /\ (log[i] = "insert into cardfaq" /\ log[j] = "insert into cardfaqrelated")
                    => i < j

\* the transaction of an Import holds rows of cardfaqrelated, of carddetail
\* and of cardimage, not yet committed
ChildRowsInTransaction ==
    /\ call = "Import" /\ txn.active
    /\ txn.rows.cardfaqrelated # {} /\ txn.rows.carddetail # {} /\ txn.rows.cardimage # {}

\* C22: no step of an Export, successful or failed, changes a row of the
\* five tables, the tables or the schema version of the store; no step of an
\* Export removes a file of the card directory, and the step on which an
\* Export fails leaves every file as it is, so that the files written for the
\* earlier cards remain.
ExportReadOnly ==
    [][ call = "Export" =>
            /\ db' = db /\ txn' = txn
            /\ DOMAIN dir.files \subseteq DOMAIN dir'.files
            /\ pc' = "throw" => dir'.files = dir.files
      ]_vars

\* an Export failed at its second card: the file of the first card, whose
\* five detail rows the Export has written in the order of the query, is in
\* the directory
ExportFailedAtSecondCard ==
    /\ call = "Export" /\ pc = "throw" /\ exception = "IOException"
    /\ Cardinality(ChildRows("carddetail", CardOrder(db.rows)[1].cardid)) = 5
    /\ Len(CardOrder(db.rows)) = 2 /\ Len(names) = 1
    /\ JsonFile(CardOrder(db.rows)[1].cardid) \in DOMAIN dir.files
    /\ dir.files[JsonFile(CardOrder(db.rows)[1].cardid)].doc
            = export_card_sql(db.rows, CardOrder(db.rows)[1])

\* the statements that Database.cpp and Import.cpp run with
\* execute_non_query: none of them changes a row
NonQueryStatements ==
    {"pragma journal_mode=wal", "pragma encoding='UTF-16'", "pragma foreign_keys=ON",
     "pragma user_version = 1", "begin immediate transaction", "commit transaction",
     "rollback transaction", "vacuum", "create table"}

\* execute_non_query has just run a statement to its end
NonQueryExecuted == Len(log) > 0 /\ log[Len(log)] \in NonQueryStatements /\ conn.open

\* C23: execute_non_query returns 0 for a statement that changes no row,
\* whatever the statements run before it on the connection have changed: the
\* value it returns, sqlite3_changes of the connection after the statement,
\* is 0 when the statement it has just run is a pragma, a create table, a
\* begin, a commit, a rollback or a vacuum.
NonQueryReturnsOwnChanges ==
    NonQueryExecuted => sqlite3_changes(conn) = 0

\* the running Import has created the output file: its sqlite3_open16 succeeded
OutputFileCreated == call = "Import" /\ Logs("sqlite3_open")

\* C24: when an Import that has created the output file raises, whatever the
\* step that failed, no file is left at outputfile, and the exception that
\* reaches the caller is the one the failed step raised: the catch block does
\* not replace it.
ImportCleanupAtAnyStep ==
    [][ (OutputFileCreated /\ pc # "throw" /\ pc' = "throw") =>
            /\ ~db'.exists
            /\ pc \in {"catch", "delete_handle", "delete_file"} => exception' = exception
      ]_vars

\* an Import whose final vacuum failed has raised and the output file, with
\* the committed rows, is still there
FileLeftAfterVacuumFailure ==
    /\ call = "Import" /\ pc = "throw"
    /\ Logs("commit transaction") /\ ~Logs("vacuum")
    /\ db.exists /\ db.rows.card # {}

\* C25: in every state in which no Open and no Import is running the store
\* is not half migrated: its version is 0 and it has none of the five tables,
\* or its version is 1 and it has all five.
NoHalfMigratedStore ==
    call \notin {"Open", "Import"} =>
        \/ db.version = 0 /\ db.tables = {}
        \/ db.version = 1 /\ db.tables = AllTables

\* an Open of a store that an earlier Open left with some of the tables and
\* version 0 has failed at its first create table statement
OpenOfHalfMigratedStoreFailed ==
    /\ call = "Open" /\ pc = "throw" /\ exception = "SQLiteException"
    /\ db.version = 0 /\ db.tables # {} /\ db.tables # AllTables
    /\ Logs("pragma foreign_keys=ON") /\ ~Logs("create table")

\* C26: after a successful Export the files of the card directory are
\* exactly the files <cardid>.json of the card rows of the store, whatever
\* files the directory held before.
ExportDirectoryEqualsStore ==
    ExportReturned =>
        DOMAIN dir.files = {JsonFile(c.cardid) : c \in {r \in db.rows.card : r.cardid # Null}}

\* a successful Export of a store without cards into a directory that held a
\* file: the file is still there
StaleFileAfterExport ==
    ExportReturned /\ db.rows.card = {} /\ DOMAIN dir.files # {}

\* C27: no Open and no Import that fails leaves the connection it opened
\* open: when the exception reaches the caller the connection of the call is
\* closed, and no handle was dropped with its connection open.
ConnectionReleasedOnFailure ==
    /\ ~leaked
    /\ (call \in {"Open", "Import"} /\ pc = "throw") => ~conn.open

\* an Open has failed in InitializeInstance and its connection is still open
OpenFailedConnectionLeft ==
    /\ call = "Open" /\ pc = "throw" /\ exception = "SQLiteException"
    /\ Logs("sqlite3_open") /\ leaked

\* the running Import has failed on one of its precondition checks: the
\* import path, the output directory or the card directory
PreconditionFailed ==
    /\ call = "Import" /\ pc = "throw" /\ exception = "Exception"
    /\ ~Logs("prepare")

\* C28: an Import that fails on a precondition check has not destroyed an
\* output file that existed before the call: it has deleted no file that held
\* card rows.
PreconditionFailureKeepsFile ==
    PreconditionFailed => replaced = {}

\* an Import has failed because the card directory is missing, after it had
\* deleted an output file that held card rows; no file is left
CardDirectoryFailureDestroyedFile ==
    /\ PreconditionFailed /\ Logs("begin immediate transaction")
    /\ replaced # {} /\ ~db.exists

\* the import of one file as the specification describes it: the card of the
\* document, then its details, its FAQs, their related edges and its images
import_one_file(rows, f) ==
    LET c == import_card_sql(rows, f)
        d == import_carddetail_sql(c.rows, f)
        q == import_cardfaq_sql(d.rows, f)
        x == import_cardfaqrelated_sql(q.rows, f)
        m == import_cardimage_sql(x.rows, f)
    IN  IF c.ok /\ d.ok /\ q.ok /\ x.ok /\ m.ok THEN m ELSE StatementFailed(rows)

\* the files imported one at a time
RECURSIVE import_per_file(_, _, _)
import_per_file(rows, files, todo) ==
    IF Len(todo) = 0 THEN [ok |-> TRUE, rows |-> rows]
    ELSE LET r == import_one_file(rows, files[Head(todo)])
         IN  IF r.ok THEN import_per_file(r.rows, files, Tail(todo)) ELSE r

\* the outcome of the per-file import of the files of the directory
PerFile == import_per_file(NoRows, dir.files, GetFiles(dir.files))
\* the outcome of the five passes over the files of the directory
TableByTable == import_passes(1, NoRows, dir.files)

\* C29: for the files of the card directory the five passes of the code, each
\* over all files, and the import of the files one at a time end alike: both
\* succeed, with the same rows in the five tables, or both fail; and the rows
\* that a running Import is about to commit are the rows of the per-file
\* import.
TableByTableRefinesPerFile ==
    /\ TableByTable.ok = PerFile.ok
    /\ TableByTable.ok => TableByTable.rows = PerFile.rows
    /\ (call = "Import" /\ pc = "commit") => (PerFile.ok /\ txn.rows = PerFile.rows)
    /\ (call = "Import" /\ pc = "return") => (PerFile.ok /\ db.rows = PerFile.rows)

\* an Import of two files with rows in every child table is about to commit
TwoFilesAllTablesAtCommit ==
    /\ call = "Import" /\ pc = "commit"
    /\ Len(GetFiles(dir.files)) = 2
    /\ Cardinality(txn.rows.card) = 2
    /\ txn.rows.carddetail # {} /\ txn.rows.cardfaqrelated # {} /\ txn.rows.cardimage # {}

\* C30: no statement is stepped while its text parameter refers to a buffer
\* that was released: no statement has been stepped so, outside a step of the
\* import loop no parameter refers to the text of a file, pinned or released,
\* and at the start of every iteration of the import loop the statement has
\* no parameter bound, so that the step for a file does not see the text of
\* the file before it.
BoundBuffersOutliveUse ==
    /\ ~statement.dangling
    /\ statement.text = "none"
    /\ (pc = "import_file") => ~statement.bound

\* the import loop has bound, stepped and cleared the text of a first file
\* and is at the start of the iteration of the second
SecondFileUnbound ==
    /\ call = "Import" /\ pc = "import_file" /\ txn.active
    /\ Len(GetFiles(dir.files)) = 2 /\ Len(names) = 1
    /\ Occurrences(InsertStatements[pass]) = 1
    /\ statement.prepared /\ statement.text = "none"

====
